---- MODULE Spec2Model ----
(***************************************************************************)
(* A model of Git-Some's data-access layer: the to-do store of            *)
(* code_garden/todos.py (Task and the to-do commands) and the Repository,  *)
(* Branch, DiffItem and IgnoreItem views of code_garden/models.py.         *)
(*                                                                         *)
(* Python values are records [ty, s, n]: ty is the Python type, s the      *)
(* text of a str (or the ISO text of a datetime), n the value of an int.   *)
(* Text that the code strips, splits or joins is a sequence of one-        *)
(* character strings.                                                      *)
(***************************************************************************)
EXTENDS Integers, Sequences, FiniteSets, TLC

VARIABLES
    tasks,      \* the rows of table tasks (todos.py:10-12)
    seq,        \* sqlite_sequence of table tasks: the largest id ever assigned
    op,         \* the operation that produced this state, with its arguments
    ret,        \* what that operation returned (or that it raised)
    gitignore,  \* the text of the repository's .gitignore, or NoFile
    stdout,     \* the text a git command printed (run_command's result)
    repo        \* the git repository: its branches' commits and the checked-out branch

vars == <<tasks, seq, op, ret, gitignore, stdout, repo>>

-----------------------------------------------------------------------------
(* Bounds *)

MaxId == 3

MaxCliId == 2

MaxIgnored == 2

MaxNameLen == 2

MaxLogLen == 6

MaxCommits == 3

MaxStatusLines == 2

-----------------------------------------------------------------------------
(* Python values *)

PyNone == [ty |-> "NoneType", s |-> "", n |-> 0]

PyStr(x) == [ty |-> "str", s |-> x, n |-> 0]

PyInt(k) == [ty |-> "int", s |-> "", n |-> k]

PyDatetime(iso) == [ty |-> "datetime", s |-> iso, n |-> 0]

\* Python truthiness, as used by `x or y`: None and "" are false.
Truthy(v) == ~(v.ty = "NoneType" \/ (v.ty = "str" /\ v.s = ""))

PyOr(a, b) == IF Truthy(a) THEN a ELSE b

Raised(exc) == [raised |-> TRUE, exc |-> exc]

Returned(v) == [raised |-> FALSE, value |-> v]

NoOp == [name |-> "none"]

-----------------------------------------------------------------------------
(* The to-do store: table tasks and class Task *)

status_options == {"open", "active", "completed"}

\* A Task instance: Task.__init__.
Task(title, description, tag, date_added, status, id) ==
    [title |-> title, description |-> description, tag |-> tag,
     date_added |-> date_added, status |-> status, id |-> id]

Dates == {PyDatetime("2021-01-01 10:00:00")}

\* Instances a caller can build before add(): id defaults to None.  The field
\* values take both values of every text field, every status, and a pair of
\* instances that differ in every field.
NewTasks ==
    {Task(PyStr(f[1]), f[2], f[3], a, PyStr(f[4]), PyNone) :
        f \in {<<"a", PyNone, PyNone, "open">>,
               <<"b", PyStr("d"), PyStr("g"), "active">>,
               <<"a", PyStr("d"), PyNone, "completed">>,
               <<"b", PyNone, PyStr("g"), "open">>},
        a \in Dates}

\* sqlite3 binds a parameter: a datetime goes through the default adapter and
\* is stored as its ISO text; str, int and None are stored as they are.
Adapt(v) == IF v.ty = "datetime" THEN PyStr(v.s) ELSE v

\* str(x) of an id: the decimal text of an int, 'None' of None.
StrOfId(id) == IF id.ty = "int" THEN [numeric |-> TRUE, n |-> id.n]
               ELSE [numeric |-> FALSE, n |-> 0]

\* WHERE id=? with a text parameter: the INTEGER PRIMARY KEY column converts
\* numeric text to an integer; other text matches no row.
Matches(row, param) == param.numeric /\ row.id = PyInt(param.n)

SetMax(S) == IF S = {} THEN 0 ELSE CHOOSE x \in S : \A y \in S : y <= x

NextRowIdOfTable == SetMax({r.id.n : r \in tasks}) + 1

\* AUTOINCREMENT: one more than the largest id ever in the table.
NextRowId == SetMax({r.id.n : r \in tasks} \cup {seq}) + 1

InsertedRowSwapped(self) ==
    Task(Adapt(self.title), Adapt(self.tag), Adapt(self.description),
         Adapt(self.date_added), Adapt(self.status), PyInt(NextRowId))

InsertedRow(self) ==
    Task(Adapt(self.title), Adapt(self.description), Adapt(self.tag),
         Adapt(self.date_added), Adapt(self.status), PyInt(NextRowId))

\* Task.add: INSERT and commit; the method returns None.
TaskAdd(self) ==
    /\ NextRowId <= MaxId
    /\ tasks' = tasks \cup {InsertedRow(self)}
    /\ seq' = NextRowId
    /\ op' = [name |-> "add", self |-> self, lastrowid |-> PyInt(NextRowId)]
    /\ ret' = Returned(PyNone)
    /\ UNCHANGED <<gitignore, stdout, repo>>

\* cursor.fetchone() of SELECT ... WHERE id=?, then Task(result[0], ...):
\* indexing the None of an empty result raises TypeError.
GetResult(id) ==
    LET found == {r \in tasks : Matches(r, StrOfId(id))}
    IN  IF found = {} THEN Raised("TypeError")
        ELSE Returned(CHOOSE r \in found : TRUE)

\* Task.get
TaskGet(id) ==
    /\ op' = [name |-> "get", id |-> id]
    /\ ret' = GetResult(id)
    /\ UNCHANGED <<tasks, seq, gitignore, stdout, repo>>

UpdatedRow(row, self) ==
    [row EXCEPT !.title = Adapt(self.title),
                !.description = Adapt(self.description),
                !.tag = Adapt(self.tag),
                !.status = Adapt(self.status)]

UpdatedTableNoWhere(self) == {UpdatedRow(r, self) : r \in tasks}

UpdatedTable(self) ==
    {IF Matches(r, StrOfId(self.id)) THEN UpdatedRow(r, self) ELSE r : r \in tasks}

\* Task.edit: UPDATE ... WHERE id=? and commit.
TaskEdit(self) ==
    /\ tasks' = UpdatedTable(self)
    /\ op' = [name |-> "edit", self |-> self,
              matched |-> {r \in tasks : Matches(r, StrOfId(self.id))}]
    /\ ret' = Returned(PyNone)
    /\ UNCHANGED <<seq, gitignore, stdout, repo>>

DeletedTable(self) == {r \in tasks : ~Matches(r, StrOfId(self.id))}

\* Task.delete: DELETE ... WHERE id=? and commit.
TaskDelete(self) ==
    /\ tasks' = DeletedTable(self)
    /\ op' = [name |-> "delete", id |-> self.id]
    /\ ret' = Returned(PyNone)
    /\ UNCHANGED <<seq, gitignore, stdout, repo>>

SortKeyActiveLast(x) ==
    <<x.status = PyStr("completed"), x.status = PyStr("active"), x.id.n>>

\* The sort key of see_list: (status == "completed", status != "active", id).
SortKey(x) == <<x.status = PyStr("completed"), x.status # PyStr("active"), x.id.n>>

BoolLess(a, b) == ~a /\ b

\* Python's tuple order on (bool, bool, int), False < True.
KeyLess(k, m) ==
    \/ BoolLess(k[1], m[1])
    \/ k[1] = m[1] /\ BoolLess(k[2], m[2])
    \/ k[1] = m[1] /\ k[2] = m[2] /\ k[3] < m[3]

RECURSIVE InsertByKey(_, _)
\* x placed after every element whose key is not greater (a stable insert).
InsertByKey(x, sorted) ==
    IF sorted = <<>> THEN <<x>>
    ELSE IF KeyLess(SortKey(x), SortKey(Head(sorted))) THEN <<x>> \o sorted
    ELSE <<Head(sorted)>> \o InsertByKey(x, Tail(sorted))

RECURSIVE PySorted(_)
\* sorted(list, key=...): a stable sort.
PySorted(list) ==
    IF list = <<>> THEN <<>>
    ELSE InsertByKey(list[Len(list)], PySorted(SubSeq(list, 1, Len(list) - 1)))

\* The orders in which fetchall() may hand back the rows of a SELECT that has
\* no ORDER BY.
FetchOrders(rows) ==
    {f \in [1..Cardinality(rows) -> rows] : \A r \in rows : \E i \in DOMAIN f : f[i] = r}

\* Task.see_list
TaskSeeList ==
    /\ \E results \in FetchOrders(tasks) :
          /\ op' = [name |-> "see_list", results |-> results]
          /\ ret' = Returned(PySorted(results))
    /\ UNCHANGED <<tasks, seq, gitignore, stdout, repo>>

\* Instances a caller can hold for edit(): fresh ones, and ones carrying the id
\* of a row that exists or existed, with a date_added of the caller's own.
TaskInstances ==
    NewTasks \cup
    {[t EXCEPT !.id = PyInt(i), !.date_added = PyDatetime("2022-02-02 20:00:00")] :
        t \in NewTasks, i \in 1..MaxId}

\* delete() reads nothing of the instance but its id.
DeleteInstances == {t \in TaskInstances : t.title = PyStr("a") /\ t.tag = PyNone}

InitStore ==
    /\ tasks = {}
    /\ seq = 0
    /\ op = NoOp
    /\ ret = Returned(PyNone)
    /\ gitignore = <<>>
    /\ stdout = <<>>
    /\ repo = <<>>

NextStore ==
    \/ \E self \in NewTasks : TaskAdd(self)
    \/ \E i \in 1..MaxId : TaskGet(PyInt(i))
    \/ TaskGet(PyNone)
    \/ \E self \in TaskInstances : TaskEdit(self)
    \/ \E self \in DeleteInstances : TaskDelete(self)
    \/ TaskSeeList

SpecStore == InitStore /\ [][NextStore]_vars

-----------------------------------------------------------------------------
(* The to-do commands of todos.py *)

\* int(id) of a command-line argument: ValueError unless it is numeric.
IntOfArg(arg) == IF arg.numeric THEN Returned(PyInt(arg.n)) ELSE Raised("ValueError")

\* Task.get(int(id)) as every command starts.
GetByArg(arg) ==
    IF IntOfArg(arg).raised THEN IntOfArg(arg) ELSE GetResult(IntOfArg(arg).value)

\* str.capitalize() on the titles the commands are given.
Capitalize(s) == IF s = "fix bug" THEN "Fix bug" ELSE s

\* click.Choice(["open", "active", "completed"], case_sensitive=False): the
\* option's value is the matching choice, or None when the option is absent.
ChoiceValue(text) ==
    IF text = "OPEN" THEN PyStr("open")
    ELSE IF text \in status_options THEN PyStr(text) ELSE PyNone

\* A command that raised before writing anything.
Aborted(name, arg, exc) ==
    /\ op' = [name |-> name, id |-> arg, wrote |-> FALSE]
    /\ ret' = exc
    /\ UNCHANGED <<tasks, seq, gitignore, stdout, repo>>

\* add_todo
add_todo(title, desc, tag, fixup) ==
    LET task_ == Task(PyStr(IF fixup THEN Capitalize(title) ELSE title),
                      desc, tag, CHOOSE a \in Dates : TRUE, PyStr("open"), PyNone)
    IN  /\ NextRowId <= MaxCliId
        /\ tasks' = tasks \cup {InsertedRow(task_)}
        /\ seq' = NextRowId
        /\ op' = [name |-> "add_todo", id |-> [numeric |-> TRUE, n |-> NextRowId],
                  wrote |-> TRUE]
        /\ ret' = Returned(task_.title)
        /\ UNCHANGED <<gitignore, stdout, repo>>

EditedTaskReopens(task_, name, desc, tag, status) ==
    [task_ EXCEPT !.title = PyOr(name, @),
                  !.description = PyOr(desc, @),
                  !.tag = PyOr(tag, @),
                  !.status = PyOr(status, PyStr("open"))]

\* The instance edit_todo builds from the stored one and its options.
EditedTask(task_, name, desc, tag, status) ==
    [task_ EXCEPT !.title = PyOr(name, @),
                  !.description = PyOr(desc, @),
                  !.tag = PyOr(tag, @),
                  !.status = PyOr(status, @)]

\* edit_todo
edit_todo(name, desc, tag, status, id) ==
    LET got == GetByArg(id)
    IN  IF got.raised THEN Aborted("edit_todo", id, got)
        ELSE
            /\ tasks' = UpdatedTable(EditedTask(got.value, name, desc, tag, status))
            /\ op' = [name |-> "edit_todo", id |-> id, wrote |-> TRUE, status |-> status]
            /\ ret' = Returned(EditedTask(got.value, name, desc, tag, status).title)
            /\ UNCHANGED <<seq, gitignore, stdout, repo>>

\* delete_todo
delete_todo(id, confirm) ==
    LET got == GetByArg(id)
    IN  IF got.raised THEN Aborted("delete_todo", id, got)
        ELSE
            /\ tasks' = IF confirm THEN DeletedTable(got.value) ELSE tasks
            /\ op' = [name |-> "delete_todo", id |-> id, wrote |-> confirm]
            /\ ret' = Returned(got.value.title)
            /\ UNCHANGED <<seq, gitignore, stdout, repo>>

\* todo_done
todo_done(id) ==
    LET got == GetByArg(id)
    IN  IF got.raised THEN Aborted("todo_done", id, got)
        ELSE
            /\ tasks' = UpdatedTable([got.value EXCEPT !.status = PyStr("completed")])
            /\ op' = [name |-> "todo_done", id |-> id, wrote |-> TRUE]
            /\ ret' = Returned(got.value.title)
            /\ UNCHANGED <<seq, gitignore, stdout, repo>>

\* The message commit_todo commits with: "(<tag or today's date>) <title>".
CommitMessage(task_) == <<PyOr(task_.tag, PyStr("01/01/2021")), task_.title>>

\* commit_todo: the task is marked completed, then `git commit -am` runs and
\* its output is echoed.
commit_todo(id, confirm) ==
    LET got == GetByArg(id)
    IN  IF got.raised THEN Aborted("commit_todo", id, got)
        ELSE
            /\ tasks' = IF confirm
                        THEN UpdatedTable([got.value EXCEPT !.status = PyStr("completed")])
                        ELSE tasks
            /\ op' = [name |-> "commit_todo", id |-> id, wrote |-> confirm]
            /\ ret' = IF confirm THEN Returned(CommitMessage(got.value))
                      ELSE Returned(PyStr("Nevermind."))
            /\ UNCHANGED <<seq, gitignore, stdout, repo>>

\* pick_todo
pick_todo(id) ==
    LET got == GetByArg(id)
    IN  IF got.raised THEN Aborted("pick_todo", id, got)
        ELSE
            /\ tasks' = UpdatedTable([got.value EXCEPT !.status = PyStr("active")])
            /\ op' = [name |-> "pick_todo", id |-> id, wrote |-> TRUE]
            /\ ret' = Returned(got.value.title)
            /\ UNCHANGED <<seq, gitignore, stdout, repo>>

\* The id arguments tried: the ids of the store and one that is no number.
CliIds ==
    {[numeric |-> TRUE, n |-> i] : i \in 1..MaxCliId} \cup {[numeric |-> FALSE, n |-> 0]}

\* The option sets edit_todo is tried with: none, --name, an empty --name with
\* --desc and --tag, and each --status.
EditOptions ==
    {<<PyNone, PyNone, PyNone, PyNone>>,
     <<PyStr("Fix bug"), PyNone, PyNone, PyNone>>,
     <<PyStr(""), PyStr("d"), PyStr("g"), PyNone>>} \cup
    {<<PyNone, PyNone, PyNone, ChoiceValue(c)>> : c \in {"OPEN", "active", "completed"}}

\* The --desc and --tag add_todo is tried with: neither, or both.
AddOptions == {<<PyNone, PyNone>>, <<PyStr("d"), PyStr("g")>>}

NextCli ==
    \/ \E o \in AddOptions, fixup \in BOOLEAN : add_todo("fix bug", o[1], o[2], fixup)
    \/ \E o \in EditOptions, id \in CliIds : edit_todo(o[1], o[2], o[3], o[4], id)
    \/ \E id \in CliIds, confirm \in BOOLEAN : delete_todo(id, confirm)
    \/ \E id \in CliIds : todo_done(id)
    \/ \E id \in CliIds, confirm \in BOOLEAN : commit_todo(id, confirm)
    \/ \E id \in CliIds : pick_todo(id)

SpecCli == InitStore /\ [][NextCli]_vars

-----------------------------------------------------------------------------
(* Text: a str is a sequence of one-character strings *)

\* The characters str.strip() and str.split() take for whitespace.
IsSpace(c) == c \in {" ", "\t", "\n", "\r"}

RECURSIVE LStrip(_)
LStrip(s) == IF s # <<>> /\ IsSpace(Head(s)) THEN LStrip(Tail(s)) ELSE s

RECURSIVE RStrip(_)
RStrip(s) ==
    IF s # <<>> /\ IsSpace(s[Len(s)]) THEN RStrip(SubSeq(s, 1, Len(s) - 1)) ELSE s

\* str.strip()
Strip(s) == RStrip(LStrip(s))

RECURSIVE IndexFrom(_, _, _)
IndexFrom(s, c, i) ==
    IF i > Len(s) THEN 0 ELSE IF s[i] = c THEN i ELSE IndexFrom(s, c, i + 1)

\* The index of the first c in s, or 0.
IndexOf(s, c) == IndexFrom(s, c, 1)

RECURSIVE SplitAt(_, _, _)
\* The fields of s, whose first separator is at k (0: none).
SplitAt(s, sep, k) ==
    IF k = 0 THEN <<s>>
    ELSE <<SubSeq(s, 1, k - 1)>>
            \o SplitAt(SubSeq(s, k + 1, Len(s)), sep, IndexOf(SubSeq(s, k + 1, Len(s)), sep))

\* str.split(sep) for a one-character sep: the fields between the separators,
\* empty ones included; always at least one field.
Split(s, sep) == SplitAt(s, sep, IndexOf(s, sep))

RECURSIVE SpaceFrom(_, _)
\* The index of the first whitespace character of s at or after i, or 0.
SpaceFrom(s, i) ==
    IF i > Len(s) THEN 0 ELSE IF IsSpace(s[i]) THEN i ELSE SpaceFrom(s, i + 1)

RECURSIVE WordsAt(_, _)
\* The words of t, which starts with a word that ends before k (0: at the end).
WordsAt(t, k) ==
    IF t = <<>> THEN <<>>
    ELSE IF k = 0 THEN <<t>>
    ELSE <<SubSeq(t, 1, k - 1)>>
            \o WordsAt(LStrip(SubSeq(t, k, Len(t))), SpaceFrom(LStrip(SubSeq(t, k, Len(t))), 1))

\* str.split(): the maximal runs of non-whitespace characters.
SplitWords(s) == WordsAt(LStrip(s), SpaceFrom(LStrip(s), 1))

RECURSIVE LinesAt(_, _)
\* The lines of text, whose first line end is at k (0: none).
LinesAt(text, k) ==
    IF text = <<>> THEN <<>>
    ELSE IF k = 0 THEN <<text>>
    ELSE <<SubSeq(text, 1, k)>>
            \o LinesAt(SubSeq(text, k + 1, Len(text)),
                       IndexOf(SubSeq(text, k + 1, Len(text)), "\n"))

\* file.readlines(): the lines, each with its line end, of a text file.
ReadLines(text) == LinesAt(text, IndexOf(text, "\n"))

RECURSIVE Concat(_)
\* "".join(parts)
Concat(parts) == IF parts = <<>> THEN <<>> ELSE Head(parts) \o Concat(Tail(parts))

\* The texts of at most n characters over an alphabet.
Texts(alphabet, n) == UNION {[1..k -> alphabet] : k \in 0..n}

-----------------------------------------------------------------------------
(* The ignore list: Repository.ignored, IgnoreItem.create, IgnoreItem.delete *)

NoFile == <<"<no file>">>

\* [IgnoreItem(i.strip()) for i in lines if i.strip()]; an IgnoreItem is given
\* by its name.
StrippedNonBlank(lines) ==
    SelectSeq([i \in 1..Len(lines) |-> Strip(lines[i])], LAMBDA n : n # <<>>)

\* Repository.ignored: the stripped non-blank lines of .gitignore, in order;
\* [] when the file cannot be read.
Ignored(file) == IF file = NoFile THEN <<>> ELSE StrippedNonBlank(ReadLines(file))

WriteIgnoresUnterminated(ignores_) == Concat(ignores_)

\* for i in ignores_: f.write(f"{i.name}\n") into the file opened with "w".
WriteIgnores(ignores_) ==
    Concat([i \in 1..Len(ignores_) |-> ignores_[i] \o <<"\n">>])

\* IgnoreItem.create, ignores_ being the list read with the item appended.
CreateWriting(name, read, ignores_) ==
    /\ Len(read) < MaxIgnored
    /\ gitignore' = WriteIgnores(ignores_)
    /\ op' = [name |-> "create", item |-> name, read |-> read, written |-> ignores_]
    /\ ret' = Returned(PyNone)
    /\ UNCHANGED <<tasks, seq, stdout, repo>>

\* IgnoreItem.create
IgnoreCreate(name) ==
    CreateWriting(name, Ignored(gitignore), Ignored(gitignore) \o <<name>>)

PyDelOneBased(list, id) ==
    LET k == IF id < 0 THEN Len(list) + id + 1 ELSE id
    IN  SubSeq(list, 1, k - 1) \o SubSeq(list, k + 1, Len(list))

\* del list[id]: id counts from 0, a negative id from the end.
PyDel(list, id) ==
    LET k == IF id < 0 THEN Len(list) + id + 1 ELSE id + 1
    IN  SubSeq(list, 1, k - 1) \o SubSeq(list, k + 1, Len(list))

ValidIndex(list, id) == -Len(list) <= id /\ id < Len(list)

\* IgnoreItem.delete, ignores_ being the list read: an index out of range
\* raises IndexError before the file is opened for writing.
DeleteFrom(ignores_, id) ==
    /\ op' = [name |-> "delete", id |-> id, read |-> ignores_,
              written |-> IF ValidIndex(ignores_, id) THEN PyDel(ignores_, id) ELSE <<>>]
    /\ IF ValidIndex(ignores_, id)
       THEN /\ gitignore' = WriteIgnores(PyDel(ignores_, id))
            /\ ret' = Returned(PyNone)
       ELSE /\ gitignore' = gitignore
            /\ ret' = Raised("IndexError")
    /\ UNCHANGED <<tasks, seq, stdout, repo>>

\* IgnoreItem.delete
IgnoreDelete(id) == DeleteFrom(Ignored(gitignore), id)

\* Repository.ignored read by a caller.
IgnoreRead ==
    /\ op' = [name |-> "ignored"]
    /\ ret' = Returned(Ignored(gitignore))
    /\ UNCHANGED <<tasks, seq, gitignore, stdout, repo>>

IgnoreChars == {"a", " ", "\n"}

InitIgnore ==
    /\ tasks = {}
    /\ seq = 0
    /\ op = NoOp
    /\ ret = Returned(PyNone)
    /\ gitignore \in {NoFile} \cup Texts(IgnoreChars, MaxNameLen + 1)
    /\ stdout = <<>>
    /\ repo = <<>>

NextIgnore ==
    \/ \E name \in Texts(IgnoreChars, MaxNameLen) : IgnoreCreate(name)
    \/ \E id \in -(MaxIgnored + 1)..(MaxIgnored + 1) : IgnoreDelete(id)
    \/ IgnoreRead

SpecIgnore == InitIgnore /\ [][NextIgnore]_vars

-----------------------------------------------------------------------------
(* Repository.log *)

\* run_command raised instead of returning text (no such directory, no git).
RunFailed == <<"<run_command raised>">>

NoCommitMessage ==
    <<"[", "N", "o", " ", "C", "o", "m", "m", "i", "t", " ",
      "M", "e", "s", "s", "a", "g", "e", "]">>

\* datetime.datetime.min
DatetimeMin == [min |-> TRUE, epoch |-> 0]

\* datetime.datetime.fromtimestamp(seconds)
FromTimestamp(seconds) == [min |-> FALSE, epoch |-> seconds]

\* LogItem.__init__
LogItem(name, timestamp, abbrev_hash) ==
    [name |-> name, timestamp |-> timestamp, abbrev_hash |-> abbrev_hash]

Digits == {"0", "1", "2", "3", "4", "5", "6", "7", "8", "9"}

DigitValue(c) ==
    CASE c = "0" -> 0 [] c = "1" -> 1 [] c = "2" -> 2 [] c = "3" -> 3 [] c = "4" -> 4
      [] c = "5" -> 5 [] c = "6" -> 6 [] c = "7" -> 7 [] c = "8" -> 8 [] c = "9" -> 9

\* Whether int(text) succeeds: decimal digits, whitespace around them allowed.
IsIntText(text) ==
    Strip(text) # <<>> /\ \A i \in 1..Len(Strip(text)) : Strip(text)[i] \in Digits

RECURSIVE DecimalValue(_)
DecimalValue(digits) ==
    IF digits = <<>> THEN 0
    ELSE 10 * DecimalValue(SubSeq(digits, 1, Len(digits) - 1))
            + DigitValue(digits[Len(digits)])

\* int(text)
IntValue(text) == DecimalValue(Strip(text))

\* The LogItem the loop body builds from a line, fields being
\* i.strip().split("\t") and raw being i.split("\t"); or what it raises.
LogItemFrom(fields, raw) ==
    IF Len(fields) = 2
    THEN Returned(LogItem(NoCommitMessage, DatetimeMin, fields[1]))
    ELSE IF Len(raw) < 2 THEN Raised("IndexError")
    ELSE IF ~IsIntText(raw[2]) THEN Raised("ValueError")
    ELSE IF Len(fields) < 3 THEN Raised("IndexError")
    ELSE Returned(LogItem(fields[1], FromTimestamp(IntValue(raw[2])), fields[3]))

LogItemOf(line) == LogItemFrom(Split(Strip(line), "\t"), Split(line, "\t"))

RECURSIVE LogItemsPartial(_)
LogItemsPartial(lines) ==
    IF lines = <<>> \/ LogItemOf(Head(lines)).raised THEN <<>>
    ELSE <<LogItemOf(Head(lines)).value>> \o LogItemsPartial(Tail(lines))

\* What the try block of Repository.log yields for the output lines: the
\* items, or [] as soon as one line raises.
LogItems(lines) ==
    IF \E k \in 1..Len(lines) : LogItemOf(lines[k]).raised THEN <<>>
    ELSE [k \in 1..Len(lines) |-> LogItemOf(lines[k]).value]

\* Repository.log; out is what `git log --oneline -5 --pretty=format:...`
\* printed.
LogOf(out) == IF out = RunFailed THEN <<>> ELSE LogItems(Split(out, "\n"))

RepositoryLog ==
    /\ op' = [name |-> "log"]
    /\ ret' = Returned(LogOf(stdout))
    /\ UNCHANGED <<tasks, seq, gitignore, stdout, repo>>

\* The characters of the log output tried: a letter (of a subject or a hash),
\* a digit, and the two separators.
LogChars == {"a", "1", "\t", "\n"}

InitLog ==
    /\ tasks = {}
    /\ seq = 0
    /\ op = NoOp
    /\ ret = Returned(PyNone)
    /\ gitignore = <<>>
    /\ stdout \in {RunFailed} \cup Texts(LogChars, MaxLogLen)
    /\ repo = <<>>

NextLog == RepositoryLog

SpecLog == InitLog /\ [][NextLog]_vars

-----------------------------------------------------------------------------
(* The repository: Repository.branches, current_branch, commit, push and     *)
(* class Branch.  repo is [branches, head, origin, next]: the commits          *)
(* reachable from each local branch, the checked-out branch, the commits of    *)
(* origin/master (NoRef before the first push) and the next commit's number.   *)

Master == <<"m", "a", "s", "t", "e", "r">>

Dev == <<"d", "e", "v">>

Fix == <<"f", "i", "x">>

\* The branch names tried, in the order `git branch` lists them.
BranchOrder == <<Dev, Fix, Master>>

BranchNames == {BranchOrder[i] : i \in 1..Len(BranchOrder)}

NoRef == {0}

DigitChars == <<"0", "1", "2", "3", "4", "5", "6", "7", "8", "9">>

\* One line of `git branch`: "* " before the checked-out branch, two spaces
\* before any other.
BranchLine(r, name) ==
    IF name \notin DOMAIN r.branches THEN <<>>
    ELSE (IF name = r.head THEN <<"*", " ">> ELSE <<" ", " ">>) \o name \o <<"\n">>

\* What `git branch` prints.
GitBranch(r) == Concat([i \in 1..Len(BranchOrder) |-> BranchLine(r, BranchOrder[i])])

\* [x for x in seq if x]
NonEmpty(lines) == SelectSeq(lines, LAMBDA l : l # <<>>)

\* Repository.branches: a Branch is given by its name.
BranchesOf(out) == StrippedNonBlank(Split(out, "\n"))

RECURSIVE WithoutMarker(_)
\* i.replace("* ", "")
WithoutMarker(s) ==
    IF s = <<>> THEN <<>>
    ELSE IF Len(s) >= 2 /\ s[1] = "*" /\ s[2] = " " THEN WithoutMarker(SubSeq(s, 3, Len(s)))
    ELSE <<Head(s)>> \o WithoutMarker(Tail(s))

StartsWithMarker(line) == Len(line) >= 2 /\ line[1] = "*" /\ line[2] = " "

\* Repository.current_branch: the first line that starts with "* ", or None.
CurrentBranchIn(lines) ==
    IF \E k \in 1..Len(lines) : StartsWithMarker(lines[k])
    THEN WithoutMarker(lines[CHOOSE k \in 1..Len(lines) :
                                /\ StartsWithMarker(lines[k])
                                /\ \A j \in 1..(k - 1) : ~StartsWithMarker(lines[j])])
    ELSE <<"<None>">>

CurrentBranchOf(out) == CurrentBranchIn(Split(out, "\n"))

\* The line `git log --oneline` prints for commit c: its hash and subject.
OnelineOf(c) == <<"c", DigitChars[c + 1], " ", "w", "i", "p", "\n">>

RECURSIVE OnelineLog(_)
\* The lines of a set of commits, newest first.
OnelineLog(commits) ==
    IF commits = {} THEN <<>>
    ELSE OnelineOf(SetMax(commits)) \o OnelineLog(commits \ {SetMax(commits)})

\* The commits a ref names: a local branch, or origin/master.
RefCommits(r, ref) ==
    IF ref = <<"origin/master">> THEN r.origin
    ELSE IF ref \in DOMAIN r.branches THEN r.branches[ref] ELSE NoRef

\* What `git log a...b --oneline` prints: the commits reachable from exactly
\* one of a and b; nothing (an error on stderr) when a ref does not exist.
GitLogThreeDots(r, a, b) ==
    IF RefCommits(r, a) = NoRef \/ RefCommits(r, b) = NoRef THEN <<>>
    ELSE OnelineLog((RefCommits(r, a) \ RefCommits(r, b))
                        \cup (RefCommits(r, b) \ RefCommits(r, a)))

\* The left side of the range compare_with_master asks for.
Baseline(name) == IF name # Master THEN Master ELSE <<"origin/master">>

\* len([i.strip() for i in comparison.split("\n") if i])
CountLines(comparison) == Len(NonEmpty(Split(comparison, "\n")))

Mutated(name, r) ==
    /\ repo' = r
    /\ op' = [name |-> name]
    /\ ret' = Returned(PyNone)
    /\ stdout' = <<>>
    /\ UNCHANGED <<tasks, seq, gitignore>>

\* Repository.commit with changes in the working tree: `git add -A`,
\* `git commit -am msg` put one more commit on the checked-out branch.
RepositoryCommit ==
    /\ repo.next <= MaxCommits
    /\ Mutated("commit",
               [repo EXCEPT !.branches[repo.head] = @ \cup {repo.next}, !.next = @ + 1])

\* Repository.push: `git push origin` of the checked-out branch.
RepositoryPush ==
    Mutated("push", IF repo.head = Master
                    THEN [repo EXCEPT !.origin = repo.branches[Master]] ELSE repo)

\* Branch.create: `git checkout -b name`; git refuses an existing name.
BranchCreate(name) ==
    Mutated("create",
            IF name \in DOMAIN repo.branches THEN repo
            ELSE [repo EXCEPT
                    !.branches = [b \in DOMAIN repo.branches \cup {name} |->
                                    IF b = name THEN repo.branches[repo.head]
                                    ELSE repo.branches[b]],
                    !.head = name])

\* Branch.checkout: `git checkout name`.
BranchCheckout(name) ==
    Mutated("checkout",
            IF name \in DOMAIN repo.branches THEN [repo EXCEPT !.head = name] ELSE repo)

\* Branch.delete: `git branch -D name`; git refuses the checked-out branch.
BranchDelete(name) ==
    Mutated("delete_branch",
            IF name \in DOMAIN repo.branches /\ name # repo.head
            THEN [repo EXCEPT !.branches = [b \in DOMAIN repo.branches \ {name} |->
                                              repo.branches[b]]]
            ELSE repo)

\* The commits of the checked-out branch after `git merge other`: unchanged
\* when other is already contained, other's when it is a fast-forward, and
\* both with a merge commit otherwise.
Merged(r, other) ==
    IF other \notin DOMAIN r.branches \/ r.branches[other] \subseteq r.branches[r.head]
    THEN r
    ELSE IF r.branches[r.head] \subseteq r.branches[other]
    THEN [r EXCEPT !.branches[r.head] = r.branches[other]]
    ELSE [r EXCEPT !.branches[r.head] = @ \cup r.branches[other] \cup {r.next},
                   !.next = @ + 1]

\* Branch.merge
BranchMerge(other) ==
    /\ repo.next <= MaxCommits
    /\ Mutated("merge", Merged(repo, other))

Listed(name, out, value) ==
    /\ stdout' = out
    /\ op' = [name |-> name]
    /\ ret' = Returned(value)
    /\ UNCHANGED <<tasks, seq, gitignore, repo>>

\* Repository.branches
RepositoryBranches == Listed("branches", GitBranch(repo), BranchesOf(GitBranch(repo)))

\* Repository.current_branch
RepositoryCurrentBranch ==
    Listed("current_branch", GitBranch(repo), CurrentBranchOf(GitBranch(repo)))

Compared(name, out) ==
    /\ stdout' = out
    /\ op' = [name |-> "compare_with_master", branch |-> name]
    /\ ret' = Returned(PyInt(CountLines(out)))
    /\ UNCHANGED <<tasks, seq, gitignore, repo>>

\* Branch.compare_with_master
CompareWithMaster(name) == Compared(name, GitLogThreeDots(repo, Baseline(name), name))

\* After Repository.init: one commit on master, nothing pushed.
InitRepo ==
    /\ tasks = {}
    /\ seq = 0
    /\ op = NoOp
    /\ ret = Returned(PyNone)
    /\ gitignore = <<>>
    /\ stdout = <<>>
    /\ repo = [branches |-> [b \in {Master} |-> {1}], head |-> Master,
               origin |-> NoRef, next |-> 2]

NextRepo ==
    \/ RepositoryCommit
    \/ RepositoryPush
    \/ \E name \in BranchNames : BranchCreate(name)
    \/ \E name \in BranchNames : BranchCheckout(name)
    \/ \E name \in BranchNames : BranchDelete(name)
    \/ \E name \in BranchNames : BranchMerge(name)
    \/ RepositoryBranches
    \/ RepositoryCurrentBranch
    \/ \E name \in BranchNames : CompareWithMaster(name)

SpecRepo == InitRepo /\ [][NextRepo]_vars

-----------------------------------------------------------------------------
(* Changed files: Repository.diffs and DiffItem.color *)

DiffItem(name, type_) == [name |-> name, type_ |-> type_]

\* choices.get(self.type_)
color(item) ==
    IF item.type_ = <<"M">> THEN PyStr("orange")
    ELSE IF item.type_ = <<"A">> THEN PyStr("green")
    ELSE IF item.type_ = <<"D">> THEN PyStr("red")
    ELSE IF item.type_ = <<"R">> THEN PyStr("yellow")
    ELSE IF item.type_ = <<"?">> THEN PyStr("green")
    ELSE PyNone

RECURSIVE LastIndexFrom(_, _, _)
\* The index of the last c in s at or before i, or 0.
LastIndexFrom(s, c, i) ==
    IF i = 0 THEN 0 ELSE IF s[i] = c THEN i ELSE LastIndexFrom(s, c, i - 1)

RECURSIVE WithoutTrailing(_, _)
WithoutTrailing(s, c) ==
    IF s # <<>> /\ s[Len(s)] = c THEN WithoutTrailing(SubSeq(s, 1, Len(s) - 1), c) ELSE s

FinalComponent(p) == SubSeq(p, LastIndexFrom(p, "/", Len(p)) + 1, Len(p))

\* (self.path / token).name: the last component of a relative path.
PathName(token) == FinalComponent(WithoutTrailing(token, "/"))

DiffItemFrom(words) == DiffItem(PathName(words[2]), words[1])

DiffItemOf(line) == DiffItemFrom(SplitWords(Strip(line)))

DiffItems(lines) == [k \in 1..Len(lines) |-> DiffItemOf(lines[k])]

\* Repository.diffs over the output of `git status --short`.
DiffsOf(out) == DiffItems(StrippedNonBlank(Split(out, "\n")))

RepositoryDiffs ==
    /\ op' = [name |-> "diffs"]
    /\ ret' = Returned(DiffsOf(stdout))
    /\ UNCHANGED <<tasks, seq, gitignore, stdout, repo>>

\* DiffItem.color of the k-th item of the diffs read last.
DiffItemColor(k) ==
    /\ op.name = "diffs"
    /\ k <= Len(ret.value)
    /\ op' = [name |-> "color", item |-> k]
    /\ ret' = Returned(color(DiffsOf(stdout)[k]))
    /\ UNCHANGED <<tasks, seq, gitignore, stdout, repo>>

\* The two status letters `git status --short` prints for a modified, added,
\* deleted, renamed or untracked file.
StatusCodes ==
    {<<" ", "M">>, <<"M", " ">>, <<"M", "M">>, <<"A", " ">>, <<" ", "D">>, <<"D", " ">>,
     <<"R", " ">>, <<"?", "?">>}

StatusPaths == {<<"f">>, <<"d", "/", "f">>, <<"d", "/">>}

\* One line of `git status --short`; a rename shows "old -> new".
StatusLine(code, path) ==
    code \o <<" ">> \o path
        \o (IF code[1] = "R" THEN <<" ", "-", ">", " ", "g">> ELSE <<>>) \o <<"\n">>

StatusLines ==
    {StatusLine(code, path) : code \in StatusCodes, path \in StatusPaths}

StatusOutputs ==
    {Concat(lines) : lines \in UNION {[1..k -> StatusLines] : k \in 0..MaxStatusLines}}

InitDiffs ==
    /\ tasks = {}
    /\ seq = 0
    /\ op = NoOp
    /\ ret = Returned(PyNone)
    /\ gitignore = <<>>
    /\ stdout \in StatusOutputs
    /\ repo = <<>>

NextDiffs ==
    \/ RepositoryDiffs
    \/ \E k \in 1..MaxStatusLines : DiffItemColor(k)

SpecDiffs == InitDiffs /\ [][NextDiffs]_vars

-----------------------------------------------------------------------------
(* Claims about Repository.diffs, checked under SpecDiffs *)

\* The display color of a change type: modified, added, deleted, renamed,
\* untracked.
DisplayColor(letter) ==
    CASE letter = "M" -> PyStr("orange")
      [] letter = "A" -> PyStr("green")
      [] letter = "D" -> PyStr("red")
      [] letter = "R" -> PyStr("yellow")
      [] letter = "?" -> PyStr("green")

StatusOutputLines == StrippedNonBlank(Split(stdout, "\n"))

\* C9: for every non-empty line of the short-form status output there is
\* exactly one DiffItem, whose type_ is the line's first whitespace token
\* and whose name is the base name of the second token, and whose color is
\* the display color of its change type (modified, added, deleted, renamed,
\* untracked), never undefined.
C9_DiffItems ==
    /\ op.name = "diffs" =>
          /\ Len(ret.value) = Len(StatusOutputLines)
          /\ \A k \in 1..Len(StatusOutputLines) :
                /\ ret.value[k].type_ = SplitWords(StatusOutputLines[k])[1]
                /\ ret.value[k].name = PathName(SplitWords(StatusOutputLines[k])[2])
    /\ op.name = "color" =>
          /\ ret.value # PyNone
          /\ ret.value = DisplayColor(StatusOutputLines[op.item][1])

-----------------------------------------------------------------------------
(* Claims about branches, checked under SpecRepo *)

\* The names of the repository's branches in the order `git branch` lists them.
BareNames ==
    SelectSeq(BranchOrder, LAMBDA b : b \in DOMAIN repo.branches)

\* C7: Repository.branches returns one Branch per non-empty line of the
\* listing, in output order, each named by the bare branch name (the marker
\* of the checked-out branch stripped), and the name current_branch returns
\* is the name of one element of branches.
C7_BareBranchNames ==
    /\ op.name = "branches" => ret.value = BareNames
    /\ op.name = "current_branch" =>
          \E k \in 1..Len(BranchesOf(stdout)) : BranchesOf(stdout)[k] = ret.value

\* C8: for a branch b other than master, compare_with_master is the number
\* of commits reachable from b and not from master.
C8_AheadOfMaster ==
    (/\ op.name = "compare_with_master"
     /\ op.branch # Master
     /\ op.branch \in DOMAIN repo.branches
     /\ Master \in DOMAIN repo.branches) =>
        ret.value = PyInt(Cardinality(repo.branches[op.branch] \ repo.branches[Master]))

-----------------------------------------------------------------------------
(* Claims about Repository.log, checked under SpecLog *)

OutputLines == IF stdout = RunFailed THEN <<>> ELSE Split(stdout, "\n")

\* A line that carries only a hash: one non-empty field, no tab around it.
HashOnly(line) == line # <<>> /\ \A i \in 1..Len(line) : ~IsSpace(line[i])

\* A line "subject<TAB>seconds<TAB>hash" with all three fields present.
WellFormed(line) ==
    /\ Len(Split(line, "\t")) = 3
    /\ \A f \in 1..3 : HashOnly(Split(line, "\t")[f])
    /\ IsIntText(Split(line, "\t")[2])

\* C6: for a line of the log output that carries only a hash, among lines
\* that are well formed or carry only a hash, Repository.log produces a
\* LogItem named "[No Commit Message]" with the minimum timestamp and that
\* hash as abbrev_hash.
C6_HashOnlyLine ==
    (op.name = "log" /\ \A k \in 1..Len(OutputLines) :
                            HashOnly(OutputLines[k]) \/ WellFormed(OutputLines[k])) =>
        \A k \in 1..Len(OutputLines) :
            HashOnly(OutputLines[k]) =>
                /\ Len(ret.value) = Len(OutputLines)
                /\ ret.value[k] = LogItem(NoCommitMessage, DatetimeMin, OutputLines[k])

Parses(line) == ~LogItemOf(line).raised

\* C11: Repository.log never raises; when running the command fails or any
\* one output line cannot be parsed it returns the empty sequence, and
\* otherwise one LogItem per output line: never a partial list.
C11_AllOrNothing ==
    op.name = "log" =>
        /\ ~ret.raised
        /\ (stdout = RunFailed \/ \E k \in 1..Len(OutputLines) : ~Parses(OutputLines[k])) =>
              ret.value = <<>>
        /\ (stdout # RunFailed /\ \A k \in 1..Len(OutputLines) : Parses(OutputLines[k])) =>
              Len(ret.value) = Len(OutputLines)

\* A log whose first line parses and whose second does not, read as empty.
C11_Witness ==
    /\ op.name = "log"
    /\ Len(OutputLines) >= 2
    /\ Parses(OutputLines[1])
    /\ ~Parses(OutputLines[2])
    /\ ret.value = <<>>

-----------------------------------------------------------------------------
(* Claims about the ignore list, checked under SpecIgnore *)

\* A name that is one non-empty line without surrounding whitespace.
CleanName(n) ==
    /\ n # <<>>
    /\ Strip(n) = n
    /\ \A i \in 1..Len(n) : n[i] \notin {"\n", "\r"}

Wrote == op.name \in {"create", "delete"} /\ ~ret.raised

RoundTrips(written, read) == read = written

\* C4 as stated: every non-empty list of names written to .gitignore, one per
\* line, is read back by Repository.ignored with the same names in the same
\* order.
C4_AsStated ==
    (Wrote /\ op.written # <<>>) => RoundTrips(op.written, Ignored(gitignore))

\* C4 amended: every non-empty list of names, each a non-empty single line
\* without leading or trailing whitespace, written to .gitignore one per line
\* is read back by Repository.ignored with the same names in the same order.
C4_RoundTrip ==
    (Wrote /\ op.written # <<>> /\ \A i \in 1..Len(op.written) : CleanName(op.written[i]))
        => RoundTrips(op.written, Ignored(gitignore))

\* create wrote two different names, and they are read back.
C4_Witness ==
    /\ op.name = "create"
    /\ Len(op.written) = 2
    /\ op.written[1] # op.written[2]
    /\ \A i \in 1..2 : CleanName(op.written[i])
    /\ Ignored(gitignore) = op.written

\* list with its entry at index i (from 0) removed.
WithoutIndex(list, i) ==
    [k \in 1..(Len(list) - 1) |-> IF k <= i THEN list[k] ELSE list[k + 1]]

C5StepAsStated(L, M, o) ==
    /\ o.name = "create" => M = L \o <<o.item>>
    /\ (o.name = "delete" /\ o.id \in 0..(Len(L) - 1)) => M = WithoutIndex(L, o.id)

C5Step(L, M, o, r, unchanged) ==
    /\ o.name = "create" =>
          /\ CleanName(o.item) => M = L \o <<o.item>>
          /\ Len(M) >= Len(L) /\ SubSeq(M, 1, Len(L)) = L
    /\ (o.name = "delete" /\ o.id \in 0..(Len(L) - 1)) =>
          /\ ~r.raised
          /\ M = WithoutIndex(L, o.id)
    /\ (o.name = "delete" /\ ~ValidIndex(L, o.id)) => unchanged

-----------------------------------------------------------------------------
(* Claims about the to-do commands, checked under SpecCli *)

Completed(r) == r.status = PyStr("completed")

\* C2 as stated: no command reopens a completed task; once completed, a task
\* is completed for as long as it is stored.
C2_AsStated ==
    [][\A r \in tasks : \A u \in tasks' :
          (Completed(r) /\ u.id = r.id) => Completed(u)]_vars

\* C2 amended: a completed task stays completed under add_todo, todo_done,
\* commit_todo, delete_todo and edit_todo without --status; only pick_todo on
\* its id (making it active) and edit_todo --status on its id (setting the
\* given status) change the status of a completed task.
C2_CompletedLeftOnlyByPickOrEdit ==
    [][\A r \in tasks : \A u \in tasks' :
          (Completed(r) /\ u.id = r.id /\ ~Completed(u)) =>
             /\ op'.id = [numeric |-> TRUE, n |-> r.id.n]
             /\ \/ op'.name = "pick_todo" /\ u.status = PyStr("active")
                \/ /\ op'.name = "edit_todo"
                   /\ op'.status \in {PyStr("open"), PyStr("active")}
                   /\ u.status = op'.status]_vars

\* edit_todo without --status has rewritten a completed task beside another
\* task, and both are as completed or not as they were.
C2_Witness ==
    /\ op.name = "edit_todo"
    /\ op.wrote
    /\ op.status = PyNone
    /\ Cardinality(tasks) >= 2
    /\ \E r \in tasks :
          /\ op.id = [numeric |-> TRUE, n |-> r.id.n]
          /\ Completed(r)
          /\ r.tag = PyStr("g")
    /\ \E r \in tasks : ~Completed(r)

-----------------------------------------------------------------------------
(* Claims about the to-do store, checked under SpecStore *)

StatusRank(row) ==
    IF row.status = PyStr("active") THEN 0
    ELSE IF row.status = PyStr("open") THEN 1 ELSE 2

\* C1: see_list returns every stored task exactly once, every active task
\* before every open task, every open task before every completed task, and
\* tasks of one status in ascending id order, whatever order the rows were
\* fetched in.
C1_SeeListOrder ==
    (op.name = "see_list" /\ \A r \in tasks : r.status.s \in status_options) =>
        LET list == ret.value
        IN  /\ ~ret.raised
            /\ Len(list) = Cardinality(tasks)
            /\ \A r \in tasks : \E i \in 1..Len(list) : list[i] = r
            /\ \A i, j \in 1..Len(list) :
                  i < j =>
                    /\ StatusRank(list[i]) <= StatusRank(list[j])
                    /\ StatusRank(list[i]) = StatusRank(list[j]) =>
                            list[i].id.n < list[j].id.n

\* The spec's example: (1, completed), (2, active), (3, open), fetched in id
\* order, is listed as [2, 3, 1].
C1_Witness ==
    /\ op.name = "see_list"
    /\ {<<r.id.n, r.status.s>> : r \in tasks} =
           {<<1, "completed">>, <<2, "active">>, <<3, "open">>}
    /\ [i \in 1..3 |-> op.results[i].id.n] = <<1, 2, 3>>
    /\ [i \in 1..3 |-> ret.value[i].id.n] = <<2, 3, 1>>

SameTextFields(row, self) ==
    /\ row.title = self.title
    /\ row.description = self.description
    /\ row.tag = self.tag
    /\ row.status = self.status

\* C3 as stated: after Task.add(), Task.get on the value add returned yields
\* a record whose title, description, tag, date_added and status equal those
\* of the inserted task.
C3_AsStated ==
    op.name = "add" =>
        LET got == GetResult(ret.value)
        IN  /\ ~got.raised
            /\ SameTextFields(got.value, op.self)
            /\ got.value.date_added = op.self.date_added

\* C3 amended: Task.add() returns None; Task.get on the id the store assigned
\* to the inserted row yields a record with that id whose title, description,
\* tag and status equal those of the inserted task and whose date_added is
\* the str holding the ISO text of the inserted datetime.
C3_AddThenGet ==
    op.name = "add" =>
        LET got == GetResult(op.lastrowid)
        IN  /\ ret = Returned(PyNone)
            /\ ~got.raised
            /\ got.value.id = op.lastrowid
            /\ SameTextFields(got.value, op.self)
            /\ got.value.date_added = PyStr(op.self.date_added.s)

\* An add into a store that already holds another task, of a task with a
\* description and a tag.
C3_Witness ==
    /\ op.name = "add"
    /\ Cardinality(tasks) >= 2
    /\ op.self.description = PyStr("d")
    /\ op.self.tag = PyStr("g")
    /\ op.self.date_added.ty = "datetime"
    /\ ~GetResult(op.lastrowid).raised

\* C10: Task.edit() rewrites only title, description, tag and status of the
\* record whose id is the instance's: that record keeps its id and
\* date_added, every other record and the set of stored ids are unchanged,
\* and with no such record the store is unchanged.
C10_EditFrame ==
    [][op'.name = "edit" =>
        LET self == op'.self
            hit  == {r \in tasks : r.id = self.id}
        IN  /\ {r.id : r \in tasks'} = {r.id : r \in tasks}
            /\ Cardinality(tasks') = Cardinality(tasks)
            /\ \A r \in tasks : r.id # self.id => r \in tasks'
            /\ \A r \in hit :
                  \E u \in tasks' :
                     /\ u.id = r.id
                     /\ u.date_added = r.date_added
                     /\ SameTextFields(u, self)
            /\ hit = {} => tasks' = tasks
            /\ seq' = seq]_vars

\* An edit that found its record among others and changed every text field
\* of it, with an instance whose date_added differs from the record's.
C10_Witness ==
    /\ op.name = "edit"
    /\ Cardinality(tasks) >= 2
    /\ \E old \in op.matched :
          /\ old.title # op.self.title
          /\ old.description # op.self.description
          /\ old.tag # op.self.tag
          /\ old.status # op.self.status
          /\ old.date_added # Adapt(op.self.date_added)

\* C12: after any sequence of Task.add, Task.edit and Task.delete all stored
\* tasks have pairwise distinct ids, and every add assigns an id greater than
\* every id an earlier add assigned (seq, the greatest id assigned so far,
\* bounds the stored ids and never decreases), so a deleted task's id is not
\* given to a later task.
C12_IdsDistinctNeverReused ==
    [][/\ \A r1, r2 \in tasks' : r1.id = r2.id => r1 = r2
       /\ \A r \in tasks' : r.id.ty = "int" /\ r.id.n <= seq'
       /\ seq' >= seq
       /\ op'.name = "add" =>
             /\ op'.lastrowid.n > seq
             /\ \A r \in tasks : op'.lastrowid.n > r.id.n
             /\ seq' = op'.lastrowid.n
             /\ \E r \in tasks' \ tasks : r.id = op'.lastrowid]_vars

\* An add after the only task, with id 1, was deleted: the new task has id 2.
C12_Witness ==
    /\ op.name = "add"
    /\ Cardinality(tasks) = 1
    /\ op.lastrowid = PyInt(2)
    /\ \A r \in tasks : r.id = PyInt(2)

====
